---- MODULE Spec2Model ----
(***************************************************************************)
(* Model of the CekFakta analysis service (services/ai_service.py) and of  *)
(* its Flask endpoint POST /api/analyze (app.py).                           *)
(*                                                                         *)
(* Python strings are sequences of one-character strings, so that strip(), *)
(* lower(), len(), substring search and JSON parsing are computed.         *)
(* Python / JSON values are tagged records [t, v]:                         *)
(*   "str" (v: characters), "num" (v: integer), "bool", "null",            *)
(*   "arr" (v: sequence of values), "obj" (v: function key -> value).      *)
(* A Python dict built by the code (a result) is a function from key name  *)
(* to tagged value.                                                        *)
(***************************************************************************)
EXTENDS Integers, Sequences, FiniteSets, TLC

\* ------------------------------------------------------------------------
\* Bounds and program constants

\* Number of request slots (threads of the Flask server / direct callers).
MaxRequests == 2

\* ai_service.py:138  len(text) > 1000
MaxChars == 1000

\* ai_service.py:83,92  lru_cache(maxsize=100)
maxsize == 100

Requests == 1..MaxRequests

\* ------------------------------------------------------------------------
\* String literals of the source, as character sequences

K_kategori == <<"k","a","t","e","g","o","r","i">>

K_confidence == <<"c","o","n","f","i","d","e","n","c","e">>

K_penjelasan == <<"p","e","n","j","e","l","a","s","a","n">>

K_indikator_bahaya == <<"i","n","d","i","k","a","t","o","r","_","b","a","h","a","y","a">>

K_text == <<"t","e","x","t">>

S_Unknown == <<"U","n","k","n","o","w","n">>

S_Error == <<"E","r","r","o","r">>

S_low == <<"l","o","w">>

S_medium == <<"m","e","d","i","u","m">>

S_Indonesian == <<"I","n","d","o","n","e","s","i","a","n">>

S_English == <<"E","n","g","l","i","s","h">>

S_French == <<"F","r","e","n","c","h">>

S_Spanish == <<"S","p","a","n","i","s","h">>

S_German == <<"G","e","r","m","a","n">>

S_Chinese == <<"C","h","i","n","e","s","e">>

S_Arabic == <<"A","r","a","b","i","c">>

S_Russian == <<"R","u","s","s","i","a","n">>

S_Japanese == <<"J","a","p","a","n","e","s","e">>

S_Korean == <<"K","o","r","e","a","n">>

MsgEmptyText == <<"T","e","x","t"," ","m","u","s","t"," ","n","o","t"," ","b","e"," ","e","m","p","t","y">>

MsgTooLong == <<"T","e","x","t"," ","i","s"," ","t","o","o"," ","l","o","n","g"," ","(","m","a","x"," ","1","0","0","0"," ","c","h","a","r","a","c","t","e","r","s",")">>

MsgNoResponse == <<"M","o","d","e","l"," ","d","i","d"," ","n","o","t"," ","r","e","s","p","o","n","d"," ","o","r"," ","r","e","t","u","r","n","e","d"," ","e","m","p","t","y"," ","r","e","s","u","l","t",".">>

MsgNoResponseExplained == <<"M","o","d","e","l"," ","d","i","d"," ","n","o","t"," ","r","e","t","u","r","n"," ","a","n","y"," ","r","e","s","p","o","n","s","e"," ","f","o","r"," ","t","h","i","s"," ","i","n","p","u","t",".">>

MsgInvalidJson == <<"M","o","d","e","l"," ","d","i","d"," ","n","o","t"," ","r","e","s","p","o","n","d"," ","i","n"," ","v","a","l","i","d"," ","J","S","O","N"," ","f","o","r","m","a","t",".">>

MsgErrorPrefix == <<"A","n"," ","e","r","r","o","r"," ","o","c","c","u","r","r","e","d",":"," ">>

MsgUnable == <<"U","n","a","b","l","e"," ","t","o"," ","a","n","a","l","y","z","e"," ","t","e","x","t">>

MsgTeksKosong == <<"T","e","k","s"," ","t","i","d","a","k"," ","b","o","l","e","h"," ","k","o","s","o","n","g">>

MsgServerPrefix == <<"T","e","r","j","a","d","i"," ","k","e","s","a","l","a","h","a","n"," ","s","e","r","v","e","r",":"," ">>

MsgNoGetList == <<"'","l","i","s","t","'"," ","o","b","j","e","c","t"," ","h","a","s"," ","n","o"," ","a","t","t","r","i","b","u","t","e"," ","'","g","e","t","'">>

MsgNoGetStr == <<"'","s","t","r","'"," ","o","b","j","e","c","t"," ","h","a","s"," ","n","o"," ","a","t","t","r","i","b","u","t","e"," ","'","g","e","t","'">>

MsgNoGetInt == <<"'","i","n","t","'"," ","o","b","j","e","c","t"," ","h","a","s"," ","n","o"," ","a","t","t","r","i","b","u","t","e"," ","'","g","e","t","'">>

MsgNoGetNone == <<"'","N","o","n","e","T","y","p","e","'"," ","o","b","j","e","c","t"," ","h","a","s"," ","n","o"," ","a","t","t","r","i","b","u","t","e"," ","'","g","e","t","'">>

MsgNoGetBool == <<"'","b","o","o","l","'"," ","o","b","j","e","c","t"," ","h","a","s"," ","n","o"," ","a","t","t","r","i","b","u","t","e"," ","'","g","e","t","'">>

MsgNoStripNone == <<"'","N","o","n","e","T","y","p","e","'"," ","o","b","j","e","c","t"," ","h","a","s"," ","n","o"," ","a","t","t","r","i","b","u","t","e"," ","'","s","t","r","i","p","'">>

MsgTimeout == <<"C","o","n","n","e","c","t","i","o","n"," ","t","i","m","e","d"," ","o","u","t">>

MsgUnsupported == <<"4","1","5"," ","U","n","s","u","p","p","o","r","t","e","d"," ","M","e","d","i","a"," ","T","y","p","e">>

TextHello == <<"h","e","l","l","o">>

TextPrize == <<"Y","o","u"," ","w","o","n"," ","a"," ","H","A","D","I","A","H">>

TextAccount == <<"n","o"," ","r","e","k","e","n","i","n","g",":"," ","1">>

TextPadded == <<" ","h","i"," ">>

TextBlank == <<" ","\t","\n">>

TextKirim == <<"k","i","r","i","m"," ","u","a","n","g">>

ReplyProse == <<"I"," ","c","a","n","n","o","t"," ","h","e","l","p">>

ReplyProsePadded == <<" ","I"," ","c","a","n","n","o","t"," ","h","e","l","p","\n">>

ReplyArray == <<"[","1",","," ","2","]">>

ReplyNumber == <<"7">>

ReplyString == <<"\"","S","a","f","e","\"">>

ReplyNull == <<"n","u","l","l">>

ReplyEmptyObject == <<"{","}">>

ReplySafeOnly == <<"{","\"","k","a","t","e","g","o","r","i","\"",":","\"","S","a","f","e","\"","}">>

ReplyFull == <<"{","\"","k","a","t","e","g","o","r","i","\"",":"," ","\"","H","o","a","x","\"",","," ","\"","c","o","n","f","i","d","e","n","c","e","\"",":"," ","\"","h","i","g","h","\"",","," ","\"","p","e","n","j","e","l","a","s","a","n","\"",":"," ","\"","p","a","l","s","u","\"",","," ","\"","i","n","d","i","k","a","t","o","r","_","b","a","h","a","y","a","\"",":"," ","[","\"","k","l","a","i","m","\"","]","}">>

ReplyTruncated == <<"{","\"","k","a","t","e","g","o","r","i","\"",":"," ","\"","H","o","a","x","\"">>

ReplyBlank == <<" ","\n">>

S_Safe == <<"S","a","f","e">>

S_en == <<"e","n">>

S_id == <<"i","d">>

S_EN == <<"E","N">>

S_fr == <<"f","r">>

S_jv == <<"j","v">>

S_Javanese == <<"J","a","v","a","n","e","s","e">>

S_Francais == <<"F","r","a","n","c","a","i","s">>

S_positive == <<"p","o","s","i","t","i","v","e">>

S_neutral == <<"n","e","u","t","r","a","l">>

S_negative == <<"n","e","g","a","t","i","v","e">>

KW_anda == <<"a","n","d","a">>

KW_hadiah == <<"h","a","d","i","a","h">>

KW_rekening == <<"r","e","k","e","n","i","n","g">>

KW_jutaan == <<"j","u","t","a","a","n">>

S_es == <<"e","s">>

S_de == <<"d","e">>

S_zh == <<"z","h">>

S_ar == <<"a","r">>

S_ru == <<"r","u">>

S_ja == <<"j","a">>

S_ko == <<"k","o">>

K_error == <<"e","r","r","o","r">>

K_sentiment == <<"s","e","n","t","i","m","e","n","t">>

K_sentiment_score == <<"s","e","n","t","i","m","e","n","t","_","s","c","o","r","e">>

K_detected_language == <<"d","e","t","e","c","t","e","d","_","l","a","n","g","u","a","g","e">>

K_success == <<"s","u","c","c","e","s","s">>

K_result == <<"r","e","s","u","l","t">>

K_positive == <<"p","o","s","i","t","i","v","e">>

K_neutral == <<"n","e","u","t","r","a","l">>

K_negative == <<"n","e","g","a","t","i","v","e">>

PromptLanguageHead == <<"Y","o","u","r"," ","a","n","s","w","e","r"," ","M","U","S","T"," ","b","e"," ","i","n"," ","l","a","n","g","u","a","g","e",":"," ","*","*">>

PromptLanguageTail == <<"*","*",","," ","a","n","d"," ","a","l","w","a","y","s"," ","i","n"," ","t","h","e"," ","J","S","O","N"," ","f","o","r","m","a","t"," ","a","b","o","v","e",".">>

S_system == <<"s","y","s","t","e","m">>

S_user == <<"u","s","e","r">>

\* ------------------------------------------------------------------------
\* Tagged values

JStr(s) == [t |-> "str", v |-> s]

JNum(n) == [t |-> "num", v |-> n]

JBool(b) == [t |-> "bool", v |-> b]

JNull == [t |-> "null", v |-> 0]

JArr(s) == [t |-> "arr", v |-> s]

JObj(f) == [t |-> "obj", v |-> f]

EmptyDict == [k \in {} |-> JNull]

\* ------------------------------------------------------------------------
\* str methods

UpperLetters == <<"A","B","C","D","E","F","G","H","I","J","K","L","M","N","O","P","Q","R","S","T","U","V","W","X","Y","Z">>

LowerLetters == <<"a","b","c","d","e","f","g","h","i","j","k","l","m","n","o","p","q","r","s","t","u","v","w","x","y","z">>

\* str.lower() on one character
LowerChar(c) ==
    IF \E i \in 1..Len(UpperLetters) : UpperLetters[i] = c
    THEN LowerLetters[CHOOSE i \in 1..Len(UpperLetters) : UpperLetters[i] = c]
    ELSE c

\* str.lower()
Lower(s) == [i \in 1..Len(s) |-> LowerChar(s[i])]

\* characters removed by str.strip()
IsSpace(c) == c \in {" ", "\t", "\n", "\r", "\f"}

\* str.strip()
Strip(s) ==
    LET keep == {i \in 1..Len(s) : ~IsSpace(s[i])}
    IN  IF keep = {} THEN <<>>
        ELSE LET first == CHOOSE i \in keep : \A j \in keep : i <= j
                 last  == CHOOSE i \in keep : \A j \in keep : j <= i
             IN  SubSeq(s, first, last)

\* `k in text` for strings
Contains(s, k) ==
    \E i \in 1..(Len(s) - Len(k) + 1) : SubSeq(s, i, i + Len(k) - 1) = k

\* ------------------------------------------------------------------------
\* json.loads, for the JSON subset: objects, arrays, strings without
\* escapes, non-negative integers, true / false / null, whitespace.

JsonFail == [ok |-> FALSE, val |-> JNull, rest |-> <<>>]

JsonOk(val, rest) == [ok |-> TRUE, val |-> val, rest |-> rest]

IsJsonWs(c) == c \in {" ", "\t", "\n", "\r"}

Digits == <<"0","1","2","3","4","5","6","7","8","9">>

IsDigit(c) == \E i \in 1..10 : Digits[i] = c

DigitVal(c) == (CHOOSE i \in 1..10 : Digits[i] = c) - 1

Tail0(s, n) == SubSeq(s, n + 1, Len(s))

StartsWith(s, p) == Len(s) >= Len(p) /\ SubSeq(s, 1, Len(p)) = p

RECURSIVE SkipWs(_)
SkipWs(s) == IF s # <<>> /\ IsJsonWs(s[1]) THEN SkipWs(Tail(s)) ELSE s

\* s[1] is the opening quote
ParseString(s) ==
    LET close == {i \in 2..Len(s) : s[i] = "\""}
    IN  IF close = {} THEN JsonFail
        ELSE LET j == CHOOSE i \in close : \A k \in close : i <= k
                 body == SubSeq(s, 2, j - 1)
             IN  IF \E i \in 1..Len(body) : body[i] \in {"\\", "\n", "\t", "\r"}
                 THEN JsonFail
                 ELSE JsonOk(JStr(body), Tail0(s, j))

RECURSIVE ParseDigits(_, _)
ParseDigits(s, acc) ==
    IF s # <<>> /\ IsDigit(s[1])
    THEN ParseDigits(Tail(s), 10 * acc + DigitVal(s[1]))
    ELSE JsonOk(JNum(acc), s)

\* s[1] is a digit; a leading 0 ends the number
ParseNumber(s) ==
    IF s[1] = "0" THEN JsonOk(JNum(0), Tail(s)) ELSE ParseDigits(s, 0)

RECURSIVE ParseValue(_), ParseMembers(_, _), ParseElements(_, _)
\* after "{" or ",": a key is expected
ParseMembers(s, acc) ==
    LET s1 == SkipWs(s)
    IN  IF s1 = <<>> \/ s1[1] # "\"" THEN JsonFail
        ELSE LET k == ParseString(s1)
             IN  IF ~k.ok THEN JsonFail
                 ELSE LET s2 == SkipWs(k.rest)
                      IN  IF s2 = <<>> \/ s2[1] # ":" THEN JsonFail
                          ELSE LET val == ParseValue(Tail(s2))
                               IN  IF ~val.ok THEN JsonFail
                                   ELSE LET s3  == SkipWs(val.rest)
                                            obj == (k.val.v :> val.val) @@ acc
                                        IN  IF s3 = <<>> THEN JsonFail
                                            ELSE IF s3[1] = "}" THEN JsonOk(JObj(obj), Tail(s3))
                                            ELSE IF s3[1] = "," THEN ParseMembers(Tail(s3), obj)
                                            ELSE JsonFail

\* after "[" or ",": a value is expected
ParseElements(s, acc) ==
    LET val == ParseValue(s)
    IN  IF ~val.ok THEN JsonFail
        ELSE LET s1  == SkipWs(val.rest)
                 arr == Append(acc, val.val)
             IN  IF s1 = <<>> THEN JsonFail
                 ELSE IF s1[1] = "]" THEN JsonOk(JArr(arr), Tail(s1))
                 ELSE IF s1[1] = "," THEN ParseElements(Tail(s1), arr)
                 ELSE JsonFail

ParseValue(s) ==
    LET s1 == SkipWs(s)
    IN  IF s1 = <<>> THEN JsonFail
        ELSE IF s1[1] = "{" THEN
                 LET s2 == SkipWs(Tail(s1))
                 IN  IF s2 # <<>> /\ s2[1] = "}" THEN JsonOk(JObj(EmptyDict), Tail(s2))
                     ELSE ParseMembers(s2, EmptyDict)
        ELSE IF s1[1] = "[" THEN
                 LET s2 == SkipWs(Tail(s1))
                 IN  IF s2 # <<>> /\ s2[1] = "]" THEN JsonOk(JArr(<<>>), Tail(s2))
                     ELSE ParseElements(s2, <<>>)
        ELSE IF s1[1] = "\"" THEN ParseString(s1)
        ELSE IF IsDigit(s1[1]) THEN ParseNumber(s1)
        ELSE IF StartsWith(s1, <<"n","u","l","l">>) THEN JsonOk(JNull, Tail0(s1, 4))
        ELSE IF StartsWith(s1, <<"t","r","u","e">>) THEN JsonOk(JBool(TRUE), Tail0(s1, 4))
        ELSE IF StartsWith(s1, <<"f","a","l","s","e">>) THEN JsonOk(JBool(FALSE), Tail0(s1, 5))
        ELSE JsonFail

\* json.loads(s): the whole text must be one value; otherwise JSONDecodeError
json_loads(s) ==
    LET r == ParseValue(s)
    IN  IF r.ok /\ SkipWs(r.rest) = <<>> THEN JsonOk(r.val, <<>>) ELSE JsonFail

\* ------------------------------------------------------------------------
\* Python helpers

\* dict.get(key, default)
dict_get(d, key, default) == IF key \in DOMAIN d THEN d[key] ELSE default

\* round(x, 2); x in thousandths, the result in hundredths (ties to even)
round2(x) ==
    LET q == x \div 10
        m == x % 10
    IN  IF m < 5 THEN q
        ELSE IF m > 5 THEN q + 1
        ELSE IF q % 2 = 0 THEN q ELSE q + 1

JFloat(hundredths) == [t |-> "float", v |-> hundredths]

\* An exception: its class and str(e)
Exc(type, msg) == [type |-> type, msg |-> msg]

NoExc == Exc("none", <<>>)

\* type name in the AttributeError of value.get
NoGetMsg(val) ==
    CASE val.t = "arr"  -> MsgNoGetList
      [] val.t = "str"  -> MsgNoGetStr
      [] val.t = "num"  -> MsgNoGetInt
      [] val.t = "bool" -> MsgNoGetBool
      [] OTHER          -> MsgNoGetNone

\* ------------------------------------------------------------------------
\* functools.lru_cache: entries in order of use, the most recent last.
\* The key is (endpoint, key, text); endpoint and key are fixed
\* configuration, so the text stands for the key.

\* faulty variant: no lookup ever finds its key
cache_has_never(cache, key) == FALSE

cache_has(cache, key) == \E i \in 1..Len(cache) : cache[i].key = key

cache_index(cache, key) == CHOOSE i \in 1..Len(cache) : cache[i].key = key

cache_get(cache, key) == cache[cache_index(cache, key)].value

cache_remove(cache, i) == SubSeq(cache, 1, i - 1) \o SubSeq(cache, i + 1, Len(cache))

\* a hit moves the entry to the most recent position
cache_touch(cache, key) ==
    LET i == cache_index(cache, key)
    IN  Append(cache_remove(cache, i), cache[i])

\* faulty variant: the returned value is not stored
cache_put_dropped(cache, key, value) == cache

\* after the wrapped function returned: keep an entry another thread stored
\* meanwhile, else evict the oldest entry when full, then store
cache_put(cache, key, value) ==
    IF cache_has(cache, key) THEN cache
    ELSE IF Len(cache) >= maxsize
         THEN Append(Tail(cache), [key |-> key, value |-> value])
         ELSE Append(cache, [key |-> key, value |-> value])

\* ------------------------------------------------------------------------
\* analyze_text: validation (ai_service.py:135-139)

\* not text or len(text.strip()) == 0
is_empty(text) == text = <<>> \/ Len(Strip(text)) = 0

\* faulty variant: the limit itself is rejected
too_long_inclusive(text) == Len(text) >= MaxChars

\* len(text) > 1000
too_long(text) == Len(text) > MaxChars

EmptyTextResult == K_error :> JStr(MsgEmptyText)

TooLongResult == K_error :> JStr(MsgTooLong)

\* ------------------------------------------------------------------------
\* analyze_text: language (ai_service.py:146-167)

Keywords == <<KW_anda, KW_hadiah, KW_rekening, KW_jutaan>>

\* faulty variant: the text is not lowered
has_keyword_case_sensitive(text) ==
    \E i \in 1..Len(Keywords) : Contains(text, Keywords[i])

\* any(k in text.lower() for k in [...])
has_keyword(text) == \E i \in 1..Len(Keywords) : Contains(Lower(text), Keywords[i])

\* lang_code == "en" and any(...)
is_misdetected(lang_code, text) == lang_code = S_en /\ has_keyword(text)

\* the dict literal of ai_service.py:156-167, as (code, name) pairs
LanguageNames ==
    << <<S_id, S_Indonesian>>, <<S_en, S_English>>, <<S_fr, S_French>>,
       <<S_es, S_Spanish>>, <<S_de, S_German>>, <<S_zh, S_Chinese>>,
       <<S_ar, S_Arabic>>, <<S_ru, S_Russian>>, <<S_ja, S_Japanese>>,
       <<S_ko, S_Korean>> >>

\* {...}.get(key, default) on a table of pairs
table_get(table, key, default) ==
    IF \E i \in 1..Len(table) : table[i][1] = key
    THEN table[CHOOSE i \in 1..Len(table) : table[i][1] = key][2]
    ELSE default

\* the final language_name for a detector result
resolve_language(text, language_result) ==
    LET code0 == Lower(language_result.iso6391_name)
        name0 == language_result.name
        fix   == is_misdetected(code0, text)
        lang_code     == IF fix THEN S_id ELSE code0
        language_name == IF fix THEN S_Indonesian ELSE name0
    IN  table_get(LanguageNames, lang_code, language_name)

\* the system prompt; of its fixed text only the sentence naming the
\* language is kept (ai_service.py:186)
system_prompt(language_name) ==
    PromptLanguageHead \o language_name \o PromptLanguageTail

\* openai.ChatCompletion.create(...) arguments (ai_service.py:193-201)
completion_args(text, language_name) ==
    [messages |-> << [role |-> S_system, content |-> system_prompt(language_name)],
                     [role |-> S_user, content |-> text] >>,
     temperature_tenths |-> 3,
     max_tokens |-> 500]

NoRequest == [messages |-> <<>>, temperature_tenths |-> 0, max_tokens |-> 0]

\* ------------------------------------------------------------------------
\* analyze_text: results (ai_service.py:204-264)

sentiment_fields(sentiment_result, language_name) ==
    (K_sentiment :> JStr(sentiment_result.sentiment)) @@
    (K_sentiment_score :> JObj(
        (K_positive :> JFloat(round2(sentiment_result.positive))) @@
        (K_neutral  :> JFloat(round2(sentiment_result.neutral))) @@
        (K_negative :> JFloat(round2(sentiment_result.negative))))) @@
    (K_detected_language :> JStr(language_name))

\* faulty variant: the default confidence of the final response is used
EmptyResponseResult_medium(sentiment_result, language_name) ==
    (K_error :> JStr(MsgNoResponse)) @@
    (K_kategori :> JStr(S_Unknown)) @@
    (K_confidence :> JStr(S_medium)) @@
    (K_penjelasan :> JStr(MsgNoResponseExplained)) @@
    (K_indikator_bahaya :> JArr(<<>>)) @@
    sentiment_fields(sentiment_result, language_name)

\* if not gpt_raw
EmptyResponseResult(sentiment_result, language_name) ==
    (K_error :> JStr(MsgNoResponse)) @@
    (K_kategori :> JStr(S_Unknown)) @@
    (K_confidence :> JStr(S_low)) @@
    (K_penjelasan :> JStr(MsgNoResponseExplained)) @@
    (K_indikator_bahaya :> JArr(<<>>)) @@
    sentiment_fields(sentiment_result, language_name)

\* faulty variant: the fallback leaves out what the text analytics calls returned
InvalidJsonResult_bare(gpt_raw, sentiment_result, language_name) ==
    (K_error :> JStr(MsgInvalidJson)) @@
    (K_kategori :> JStr(S_Unknown)) @@
    (K_confidence :> JStr(S_low)) @@
    (K_penjelasan :> JStr(gpt_raw)) @@
    (K_indikator_bahaya :> JArr(<<>>))

\* except json.JSONDecodeError
InvalidJsonResult(gpt_raw, sentiment_result, language_name) ==
    (K_error :> JStr(MsgInvalidJson)) @@
    (K_kategori :> JStr(S_Unknown)) @@
    (K_confidence :> JStr(S_low)) @@
    (K_penjelasan :> JStr(gpt_raw)) @@
    (K_indikator_bahaya :> JArr(<<>>)) @@
    sentiment_fields(sentiment_result, language_name)

\* faulty variant: a missing confidence defaults as in the fallbacks
FinalResult_low(gpt_result, sentiment_result, language_name) ==
    (K_kategori :> dict_get(gpt_result, K_kategori, JStr(S_Unknown))) @@
    (K_confidence :> dict_get(gpt_result, K_confidence, JStr(S_low))) @@
    (K_penjelasan :> dict_get(gpt_result, K_penjelasan, JStr(<<>>))) @@
    (K_indikator_bahaya :> dict_get(gpt_result, K_indikator_bahaya, JArr(<<>>))) @@
    sentiment_fields(sentiment_result, language_name)

\* the final response, gpt_result being a dict
FinalResult(gpt_result, sentiment_result, language_name) ==
    (K_kategori :> dict_get(gpt_result, K_kategori, JStr(S_Unknown))) @@
    (K_confidence :> dict_get(gpt_result, K_confidence, JStr(S_medium))) @@
    (K_penjelasan :> dict_get(gpt_result, K_penjelasan, JStr(<<>>))) @@
    (K_indikator_bahaya :> dict_get(gpt_result, K_indikator_bahaya, JArr(<<>>))) @@
    sentiment_fields(sentiment_result, language_name)

\* except Exception as e
ErrorResult(e) ==
    (K_error :> JStr(MsgErrorPrefix \o e.msg)) @@
    (K_kategori :> JStr(S_Error)) @@
    (K_penjelasan :> JStr(MsgUnable)) @@
    (K_indikator_bahaya :> JArr(<<>>))

\* What a call of analyze_text hands to its caller
Returned(value) == [raised |-> FALSE, value |-> value, exc |-> NoExc]

Propagated(e) == [raised |-> TRUE, value |-> EmptyDict, exc |-> e]

NoOutcome == Returned(EmptyDict)

\* faulty variant: only service errors are caught
analyze_text_except_narrow(e) ==
    IF e.type = "ServiceError" THEN Returned(ErrorResult(e)) ELSE Propagated(e)

\* the try / except Exception around the body (ai_service.py:141,258-264)
analyze_text_except(e) == Returned(ErrorResult(e))

\* response.choices[0].message.content.strip()
\* content is a str, or None (AttributeError)
gpt_raw_of(content) == Strip(content.v)

\* ai_service.py:204-256, given the content of the completion
after_completion(content, sentiment_result, language_name) ==
    IF content.t # "str"
    THEN analyze_text_except(Exc("AttributeError", MsgNoStripNone))
    ELSE LET gpt_raw == gpt_raw_of(content)
         IN  IF gpt_raw = <<>>
             THEN Returned(EmptyResponseResult(sentiment_result, language_name))
             ELSE LET parsed == json_loads(gpt_raw)
                  IN  IF ~parsed.ok
                      THEN Returned(InvalidJsonResult(gpt_raw, sentiment_result, language_name))
                      ELSE IF parsed.val.t # "obj"
                      THEN analyze_text_except(Exc("AttributeError", NoGetMsg(parsed.val)))
                      ELSE Returned(FinalResult(parsed.val.v, sentiment_result, language_name))

\* ------------------------------------------------------------------------
\* app.py: POST /api/analyze

Response(status, body) == [status |-> status, body |-> body]

NoResponse == Response(0, EmptyDict)

\* 400 (app.py:69-72)
BadRequest ==
    Response(400, (K_success :> JBool(FALSE)) @@ (K_error :> JStr(MsgTeksKosong)))

\* except Exception as e (app.py:97-101)
ServerError(e) ==
    Response(500, (K_success :> JBool(FALSE)) @@
                  (K_error :> JStr(MsgServerPrefix \o e.msg)))

\* not isinstance(text, str) or not any(c.strip() for c in text)
is_blank_input(value) ==
    value.t # "str" \/ ~(\E i \in 1..Len(value.v) : Strip(<<value.v[i]>>) # <<>>)

\* app.py:62-74: what the handler does with the request body up to the
\* call of the service.  body.raises: request.get_json() raises.
endpoint_entry(body) ==
    IF body.raises
    THEN [call |-> FALSE, text |-> <<>>, response |-> ServerError(body.exc)]
    ELSE IF body.data.t # "obj"
    THEN [call |-> FALSE, text |-> <<>>,
          response |-> ServerError(Exc("AttributeError", NoGetMsg(body.data)))]
    ELSE LET value == dict_get(body.data.v, K_text, JStr(<<>>))
         IN  IF is_blank_input(value)
             THEN [call |-> FALSE, text |-> <<>>, response |-> BadRequest]
             ELSE [call |-> TRUE, text |-> value.v, response |-> NoResponse]

\* app.py:76-95: the response for a dict returned by the service
endpoint_map(result) ==
    IF K_error \in DOMAIN result /\ K_penjelasan \in DOMAIN result
    THEN Response(200, (K_success :> JBool(TRUE)) @@ (K_result :> JObj(result)))
    ELSE IF K_error \in DOMAIN result
    THEN Response(500, (K_success :> JBool(FALSE)) @@ (K_error :> result[K_error]))
    ELSE Response(200, (K_success :> JBool(TRUE)) @@ (K_result :> JObj(result)))

\* app.py:74-101: the response for the outcome of the service call
endpoint_exit(outcome) ==
    IF outcome.raised THEN ServerError(outcome.exc) ELSE endpoint_map(outcome.value)

\* ------------------------------------------------------------------------
\* Inputs and outcomes of the external services

Pad(n) == [i \in 1..n |-> "x"]

SentimentOf(label, positive, neutral, negative) ==
    [sentiment |-> label, positive |-> positive, neutral |-> neutral,
     negative |-> negative]

NoSentiment == SentimentOf(<<>>, 0, 0, 0)

LanguageOf(iso6391_name, name) == [iso6391_name |-> iso6391_name, name |-> name]

NoLanguage == LanguageOf(<<>>, <<>>)

\* what a call of an external service does: return a value or raise
Ok(value) == [ok |-> TRUE, value |-> value, exc |-> NoExc]

Raise(e) == [ok |-> FALSE, value |-> JNull, exc |-> e]

TransportError == Exc("ServiceError", MsgTimeout)

\* what request.get_json() does
Body(data) == [raises |-> FALSE, data |-> data, exc |-> NoExc]

BadBody == [raises |-> TRUE, data |-> JNull, exc |-> Exc("UnsupportedMediaType", MsgUnsupported)]

TextBody(text) == Body(JObj(K_text :> JStr(text)))

\* The inputs and outcomes below are lists; an operation picks any element.

Texts ==
    << <<>>, TextBlank, TextHello, TextPadded, TextPrize, TextAccount,
       Pad(MaxChars), Pad(MaxChars + 1) >>

\* the environment of one request in isolation
Rich ==
    [texts      |-> Texts,
     bodies     |-> << BadBody, Body(JNull), Body(JArr(<<>>)), Body(JObj(EmptyDict)),
                       Body(JObj(K_text :> JNum(7))) >>
                    \o [i \in 1..Len(Texts) |-> TextBody(Texts[i])],
     sentiments |-> << Ok(SentimentOf(S_negative, 5, 90, 905)),
                       Ok(SentimentOf(S_neutral, 125, 748, 127)),
                       Raise(TransportError) >>,
     languages  |-> << Ok(LanguageOf(S_en, S_English)), Ok(LanguageOf(S_EN, S_English)),
                       Ok(LanguageOf(S_id, S_Indonesian)), Ok(LanguageOf(S_fr, S_Francais)),
                       Ok(LanguageOf(S_jv, S_Javanese)), Raise(TransportError) >>,
     contents   |-> << Ok(JNull), Ok(JStr(<<>>)), Ok(JStr(ReplyBlank)),
                       Ok(JStr(ReplyProse)), Ok(JStr(ReplyProsePadded)),
                       Ok(JStr(ReplyTruncated)), Ok(JStr(ReplyArray)),
                       Ok(JStr(ReplyNumber)), Ok(JStr(ReplyString)), Ok(JStr(ReplyNull)),
                       Ok(JStr(ReplyEmptyObject)), Ok(JStr(ReplySafeOnly)),
                       Ok(JStr(ReplyFull)), Raise(TransportError) >>]

\* the environment of requests that share the caches
Thin ==
    [texts      |-> << TextHello, TextKirim >>,
     bodies     |-> << TextBody(TextHello) >>,
     sentiments |-> << Ok(SentimentOf(S_neutral, 125, 748, 127)), Raise(TransportError) >>,
     languages  |-> << Ok(LanguageOf(S_id, S_Indonesian)), Raise(TransportError) >>,
     contents   |-> << Ok(JStr(ReplySafeOnly)), Raise(TransportError) >>]

\* ------------------------------------------------------------------------
\* State

VARIABLES
    pc,                 \* request -> position in app.analyze_text / analyze_text
    origin,             \* request -> "http" (POST /api/analyze) or "direct"
    text,               \* request -> the text argument
    sentiment_result,   \* request -> local of analyze_text
    language_result,    \* request -> local of analyze_text
    language_name,      \* request -> local of analyze_text
    completion_request, \* request -> arguments of ChatCompletion.create
    outcome,            \* request -> what analyze_text handed to its caller
    response,           \* request -> the HTTP response
    sentiment_cache,    \* lru_cache of _cached_analyze_sentiment
    language_cache,     \* lru_cache of _cached_detect_language
    calls,              \* request -> outbound calls issued, per service
    events,             \* request -> what each external call did
    predecessors        \* request -> the requests finished before it began

vars == << pc, origin, text, sentiment_result, language_result, language_name,
           completion_request, outcome, response, sentiment_cache,
           language_cache, calls, events, predecessors >>

NoCalls == [sentiment |-> 0, language |-> 0, completion |-> 0]

NoEvents == [sentiment |-> "none", language |-> "none", completion |-> "none",
             content |-> JNull]

Init ==
    /\ pc = [r \in Requests |-> "idle"]
    /\ origin = [r \in Requests |-> "none"]
    /\ text = [r \in Requests |-> <<>>]
    /\ sentiment_result = [r \in Requests |-> NoSentiment]
    /\ language_result = [r \in Requests |-> NoLanguage]
    /\ language_name = [r \in Requests |-> <<>>]
    /\ completion_request = [r \in Requests |-> NoRequest]
    /\ outcome = [r \in Requests |-> NoOutcome]
    /\ response = [r \in Requests |-> NoResponse]
    /\ sentiment_cache = <<>>
    /\ language_cache = <<>>
    /\ calls = [r \in Requests |-> NoCalls]
    /\ events = [r \in Requests |-> NoEvents]
    /\ predecessors = [r \in Requests |-> {}]

\* the caller of request q has its answer
finished(q) ==
    \/ pc[q] = "done"
    \/ origin[q] = "direct" /\ pc[q] \in {"returned", "raised"}

\* analyze_text ends with outcome o
leave(r, o) ==
    /\ outcome' = [outcome EXCEPT ![r] = o]
    /\ pc' = [pc EXCEPT ![r] = IF o.raised THEN "raised" ELSE "returned"]

\* ------------------------------------------------------------------------
\* Operations

\* app.py:62-74  the handler receives a POST and reaches the service call
Post(r, E) ==
    /\ pc[r] = "idle"
    /\ \E i \in 1..Len(E.bodies) :
         LET e == endpoint_entry(E.bodies[i])
         IN  /\ text' = [text EXCEPT ![r] = e.text]
             /\ response' = [response EXCEPT ![r] = e.response]
             /\ pc' = [pc EXCEPT ![r] = IF e.call THEN "analyze" ELSE "done"]
    /\ origin' = [origin EXCEPT ![r] = "http"]
    /\ predecessors' = [predecessors EXCEPT ![r] = {q \in Requests : finished(q)}]
    /\ UNCHANGED << sentiment_result, language_result, language_name,
                    completion_request, outcome, sentiment_cache, language_cache,
                    calls, events >>

\* ai_service.analyze_text(text) called by other code of the process
Call(r, E) ==
    /\ pc[r] = "idle"
    /\ \E i \in 1..Len(E.texts) : text' = [text EXCEPT ![r] = E.texts[i]]
    /\ pc' = [pc EXCEPT ![r] = "analyze"]
    /\ origin' = [origin EXCEPT ![r] = "direct"]
    /\ predecessors' = [predecessors EXCEPT ![r] = {q \in Requests : finished(q)}]
    /\ UNCHANGED << sentiment_result, language_result, language_name,
                    completion_request, outcome, response, sentiment_cache,
                    language_cache, calls, events >>

\* ai_service.py:135-139
Validate(r) ==
    /\ pc[r] = "analyze"
    /\ IF is_empty(text[r]) THEN leave(r, Returned(EmptyTextResult))
       ELSE IF too_long(text[r]) THEN leave(r, Returned(TooLongResult))
       ELSE /\ pc' = [pc EXCEPT ![r] = "get_sentiment"]
            /\ UNCHANGED outcome
    /\ UNCHANGED << origin, text, sentiment_result, language_result, language_name,
                    completion_request, response, sentiment_cache, language_cache,
                    calls, events, predecessors >>

\* ai_service.py:143, 100-108, 83: the lru_cache wrapper looks the text up
GetSentiment(r) ==
    /\ pc[r] = "get_sentiment"
    /\ IF cache_has(sentiment_cache, text[r])
       THEN /\ sentiment_result' = [sentiment_result EXCEPT
                                      ![r] = cache_get(sentiment_cache, text[r])]
            /\ sentiment_cache' = cache_touch(sentiment_cache, text[r])
            /\ events' = [events EXCEPT ![r].sentiment = "hit"]
            /\ pc' = [pc EXCEPT ![r] = "get_language"]
            /\ UNCHANGED calls
       ELSE /\ calls' = [calls EXCEPT ![r].sentiment = @ + 1]
            /\ pc' = [pc EXCEPT ![r] = "sentiment_call"]
            /\ UNCHANGED << sentiment_result, sentiment_cache, events >>
    /\ UNCHANGED << origin, text, language_result, language_name, completion_request,
                    outcome, response, language_cache, predecessors >>

\* ai_service.py:88-89: client.analyze_sentiment([text])[0] returns or raises;
\* a returned value is stored by the wrapper
SentimentReturn(r, E) ==
    /\ pc[r] = "sentiment_call"
    /\ \E i \in 1..Len(E.sentiments) :
         LET o == E.sentiments[i] IN
         IF o.ok
         THEN /\ sentiment_result' = [sentiment_result EXCEPT ![r] = o.value]
              /\ sentiment_cache' = cache_put(sentiment_cache, text[r], o.value)
              /\ events' = [events EXCEPT ![r].sentiment = "ok"]
              /\ pc' = [pc EXCEPT ![r] = "get_language"]
              /\ UNCHANGED outcome
         ELSE /\ leave(r, analyze_text_except(o.exc))
              /\ events' = [events EXCEPT ![r].sentiment = "raise"]
              /\ UNCHANGED << sentiment_result, sentiment_cache >>
    /\ UNCHANGED << origin, text, language_result, language_name, completion_request,
                    response, language_cache, calls, predecessors >>

\* ai_service.py:144, 110-118, 92
GetLanguage(r) ==
    /\ pc[r] = "get_language"
    /\ IF cache_has(language_cache, text[r])
       THEN /\ language_result' = [language_result EXCEPT
                                     ![r] = cache_get(language_cache, text[r])]
            /\ language_cache' = cache_touch(language_cache, text[r])
            /\ events' = [events EXCEPT ![r].language = "hit"]
            /\ pc' = [pc EXCEPT ![r] = "build_prompt"]
            /\ UNCHANGED calls
       ELSE /\ calls' = [calls EXCEPT ![r].language = @ + 1]
            /\ pc' = [pc EXCEPT ![r] = "language_call"]
            /\ UNCHANGED << language_result, language_cache, events >>
    /\ UNCHANGED << origin, text, sentiment_result, language_name, completion_request,
                    outcome, response, sentiment_cache, predecessors >>

\* ai_service.py:97-98
LanguageReturn(r, E) ==
    /\ pc[r] = "language_call"
    /\ \E i \in 1..Len(E.languages) :
         LET o == E.languages[i] IN
         IF o.ok
         THEN /\ language_result' = [language_result EXCEPT ![r] = o.value]
              /\ language_cache' = cache_put(language_cache, text[r], o.value)
              /\ events' = [events EXCEPT ![r].language = "ok"]
              /\ pc' = [pc EXCEPT ![r] = "build_prompt"]
              /\ UNCHANGED outcome
         ELSE /\ leave(r, analyze_text_except(o.exc))
              /\ events' = [events EXCEPT ![r].language = "raise"]
              /\ UNCHANGED << language_result, language_cache >>
    /\ UNCHANGED << origin, text, sentiment_result, language_name, completion_request,
                    response, sentiment_cache, calls, predecessors >>

\* ai_service.py:146-201: the language is settled, the prompt built and the
\* completion request sent
BuildPrompt(r) ==
    /\ pc[r] = "build_prompt"
    /\ LET name == resolve_language(text[r], language_result[r])
       IN  /\ language_name' = [language_name EXCEPT ![r] = name]
           /\ completion_request' = [completion_request EXCEPT
                                       ![r] = completion_args(text[r], name)]
    /\ calls' = [calls EXCEPT ![r].completion = @ + 1]
    /\ pc' = [pc EXCEPT ![r] = "completion_call"]
    /\ UNCHANGED << origin, text, sentiment_result, language_result, outcome,
                    response, sentiment_cache, language_cache, events, predecessors >>

\* ai_service.py:193-264: the completion returns or raises, and analyze_text
\* returns
CompletionReturn(r, E) ==
    /\ pc[r] = "completion_call"
    /\ \E i \in 1..Len(E.contents) :
         LET o == E.contents[i] IN
         IF o.ok
         THEN /\ leave(r, after_completion(o.value, sentiment_result[r], language_name[r]))
              /\ events' = [events EXCEPT ![r].completion = "ok", ![r].content = o.value]
         ELSE /\ leave(r, analyze_text_except(o.exc))
              /\ events' = [events EXCEPT ![r].completion = "raise"]
    /\ UNCHANGED << origin, text, sentiment_result, language_result, language_name,
                    completion_request, response, sentiment_cache, language_cache,
                    calls, predecessors >>

\* app.py:74-101: the handler answers
Respond(r) ==
    /\ origin[r] = "http"
    /\ pc[r] \in {"returned", "raised"}
    /\ response' = [response EXCEPT ![r] = endpoint_exit(outcome[r])]
    /\ pc' = [pc EXCEPT ![r] = "done"]
    /\ UNCHANGED << origin, text, sentiment_result, language_result, language_name,
                    completion_request, outcome, sentiment_cache, language_cache,
                    calls, events, predecessors >>

Step(r, E) ==
    \/ Post(r, E)
    \/ Call(r, E)
    \/ Validate(r)
    \/ GetSentiment(r)
    \/ SentimentReturn(r, E)
    \/ GetLanguage(r)
    \/ LanguageReturn(r, E)
    \/ BuildPrompt(r)
    \/ CompletionReturn(r, E)
    \/ Respond(r)

\* one request in isolation, over the full range of inputs and outcomes
Next == \E r \in {1} : Step(r, Rich)

Spec == Init /\ [][Next]_vars

\* concurrent requests sharing the caches
NextShared == \E r \in Requests : Step(r, Thin)

SpecShared == Init /\ [][NextShared]_vars

\* ------------------------------------------------------------------------
\* Vocabulary of the properties

\* the text passes validation: some character is not whitespace, and at
\* most 1000 characters
ValidText(t) ==
    /\ \E i \in 1..Len(t) : t[i] \notin {" ", "\t", "\n", "\r", "\f"}
    /\ Len(t) <= 1000

\* analyze_text was called for r and has returned a dictionary
analyzed(r) ==
    /\ pc[r] \in {"returned", "done"}
    /\ ~outcome[r].raised
    /\ DOMAIN outcome[r].value # {}

\* analyze_text was called for r and is over
service_over(r) == pc[r] \in {"returned", "raised"} \/ (pc[r] = "done" /\ outcome[r] # NoOutcome)

AllSpace(s) == \A i \in 1..Len(s) : s[i] \in {" ", "\t", "\n", "\r", "\f"}

\* the kind of content the completion service returned
ReplyClass(content) ==
    IF content.t # "str" THEN "none"
    ELSE IF AllSpace(content.v) THEN "blank"
    ELSE LET p == json_loads(Strip(content.v))
         IN  IF ~p.ok THEN "invalid"
             ELSE IF p.val.t = "obj" THEN "object" ELSE "non_object"

\* the completion service returned content of class c to r
replied(r, c) ==
    service_over(r) /\ events[r].completion = "ok" /\ ReplyClass(events[r].content) = c

\* one of the three external calls of r raised
call_raised(r) ==
    \/ events[r].sentiment = "raise"
    \/ events[r].language = "raise"
    \/ events[r].completion = "raise"

has_fields(r, keys) == keys \subseteq DOMAIN outcome[r].value

\* ------------------------------------------------------------------------
\* C1

C2_ValidationBoundary ==
    \A r \in Requests :
        /\ pc[r] \in {"get_sentiment", "sentiment_call", "get_language",
                      "language_call", "build_prompt", "completion_call"}
              => ValidText(text[r])
        /\ service_over(r) =>
              IF ValidText(text[r])
              THEN calls[r] # NoCalls
              ELSE /\ analyzed(r)
                   /\ DOMAIN outcome[r].value = {K_error}
                   /\ calls[r] = NoCalls

C2_Witness ==
    \E r \in Requests :
        /\ analyzed(r)
        /\ Len(text[r]) = 1000
        /\ calls[r].sentiment = 1 /\ calls[r].language = 1 /\ calls[r].completion = 1

\* ------------------------------------------------------------------------
\* C3

\* C3 (as stated; violated by the code): when the sentiment, language or
\* completion call raises, analyze_text returns an error payload and the
\* endpoint answers 500 with success=false.
C3_TransportFailureIs500 ==
    \A r \in Requests :
        pc[r] = "done" /\ call_raised(r) =>
            /\ K_error \in DOMAIN outcome[r].value
            /\ response[r].status = 500
            /\ response[r].body[K_success] = JBool(FALSE)

\* ------------------------------------------------------------------------
\* C4

\* C4: when the completion returns blank content for a valid text, the
\* result has error set, kategori "Unknown", confidence "low" and a
\* penjelasan, nothing propagates, and the endpoint answers 200, success=true.
C4_EmptyResponseIsPartialSuccess ==
    \A r \in Requests :
        replied(r, "blank") =>
            /\ analyzed(r)
            /\ has_fields(r, {K_error, K_kategori, K_confidence, K_penjelasan})
            /\ outcome[r].value[K_kategori] = JStr(S_Unknown)
            /\ outcome[r].value[K_confidence] = JStr(S_low)
            /\ outcome[r].value[K_penjelasan].t = "str"
            /\ pc[r] = "done" =>
                  /\ response[r].status = 200
                  /\ response[r].body[K_success] = JBool(TRUE)
                  /\ response[r].body[K_result] = JObj(outcome[r].value)

C4_Witness ==
    \E r \in Requests :
        /\ replied(r, "blank") /\ pc[r] = "done"
        /\ events[r].content.v # <<>>
        /\ response[r].status = 200

\* ------------------------------------------------------------------------
\* C5

\* C5 (as stated; violated by the code): when the completion returns
\* non-blank content that does not parse as a JSON object (prose, or JSON
\* that is not an object), the result has error set, kategori "Unknown" and
\* penjelasan equal to the returned text (surrounding whitespace aside).
C5_NotAnObjectIsInvalidJson ==
    \A r \in Requests :
        replied(r, "invalid") \/ replied(r, "non_object") =>
            /\ analyzed(r)
            /\ has_fields(r, {K_error, K_kategori, K_penjelasan})
            /\ outcome[r].value[K_kategori] = JStr(S_Unknown)
            /\ outcome[r].value[K_penjelasan] = JStr(Strip(events[r].content.v))

\* ------------------------------------------------------------------------
\* C6

\* some keyword occurs in the text, letter case aside
KeywordOccurs(t) ==
    \E k \in {KW_anda, KW_hadiah, KW_rekening, KW_jutaan} :
        \E i \in 1..Len(t) :
            /\ i + Len(k) - 1 <= Len(t)
            /\ \A j \in 1..Len(k) : LowerChar(t[i + j - 1]) = k[j]

\* the language name C6 prescribes
ExpectedLanguage(t, detected) ==
    LET code == Lower(detected.iso6391_name)
    IN  IF code = S_en /\ KeywordOccurs(t) THEN S_Indonesian
        ELSE IF \E i \in 1..Len(LanguageNames) : LanguageNames[i][1] = code
        THEN LanguageNames[CHOOSE i \in 1..Len(LanguageNames) : LanguageNames[i][1] = code][2]
        ELSE detected.name

\* C6: when the detector reports en and the text contains anda, hadiah,
\* rekening or jutaan (case-insensitively), the prompt sent to the completion
\* service asks for Indonesian and detected_language is "Indonesian";
\* otherwise the name is the table's name for the code, or the detector's
\* own name for a code outside the table.
C6_LanguageCorrection ==
    \A r \in Requests :
        completion_request[r] # NoRequest =>
            LET expected == ExpectedLanguage(text[r], language_result[r])
            IN  /\ completion_request[r].messages[1].content =
                      PromptLanguageHead \o expected \o PromptLanguageTail
                /\ completion_request[r].messages[2].content = text[r]
                /\ analyzed(r) /\ K_detected_language \in DOMAIN outcome[r].value =>
                      outcome[r].value[K_detected_language] = JStr(expected)

C6_Witness ==
    \E r \in Requests :
        /\ analyzed(r)
        /\ language_result[r].iso6391_name = S_en
        /\ text[r] = TextPrize
        /\ K_detected_language \in DOMAIN outcome[r].value
        /\ outcome[r].value[K_detected_language] = JStr(S_Indonesian)

\* ------------------------------------------------------------------------
\* C7

\* r2 is a call made after r1 was over, with the same text, and no other
\* request uses that text
successive(r1, r2) ==
    /\ r1 # r2
    /\ r1 \in predecessors[r2]
    /\ text[r1] = text[r2]
    /\ service_over(r1)

\* C7 (as stated): two successive analyze_text calls with the identical text
\* invoke the sentiment transport and the language transport exactly once
\* each across the two calls.
C7_Original ==
    \A r1, r2 \in Requests :
        /\ successive(r1, r2) /\ service_over(r2)
        /\ \A q \in Requests \ {r1, r2} : pc[q] = "idle"
        => /\ calls[r1].sentiment + calls[r2].sentiment = 1
           /\ calls[r1].language + calls[r2].language = 1

\* C7 (amended): of two successive analyze_text calls with the identical
\* text, the second invokes no transport whose value the first call obtained
\* (a raised call is not cached and is invoked again); so each transport is
\* invoked at most once across the two calls once the first call obtained
\* its value, and exactly once when the first call itself invoked it.
C7_SecondCallHitsCache ==
    \A r1, r2 \in Requests :
        successive(r1, r2) =>
            /\ events[r1].sentiment \in {"ok", "hit"} =>
                  /\ calls[r2].sentiment = 0
                  /\ events[r2].sentiment \in {"none", "hit"}
                  /\ calls[r1].sentiment + calls[r2].sentiment
                        = (IF events[r1].sentiment = "ok" THEN 1 ELSE 0)
            /\ events[r1].language \in {"ok", "hit"} =>
                  /\ calls[r2].language = 0
                  /\ events[r2].language \in {"none", "hit"}
                  /\ calls[r1].language + calls[r2].language
                        = (IF events[r1].language = "ok" THEN 1 ELSE 0)

C7_Witness ==
    \E r1, r2 \in Requests :
        /\ successive(r1, r2) /\ analyzed(r2)
        /\ events[r1].sentiment = "ok" /\ events[r1].language = "ok"
        /\ events[r2].sentiment = "hit" /\ events[r2].language = "hit"
        /\ calls[r2] = [sentiment |-> 0, language |-> 0, completion |-> 1]

\* ------------------------------------------------------------------------
\* C8

ResultKeys == <<K_kategori, K_confidence, K_penjelasan, K_indikator_bahaya>>

\* the default C8 prescribes for the i-th key
DefaultOf(i) ==
    CASE i = 1 -> JStr(S_Unknown)
      [] i = 2 -> JStr(S_medium)
      [] i = 3 -> JStr(<<>>)
      [] i = 4 -> JArr(<<>>)

\* C8: when the completion returns a JSON object, each of kategori,
\* confidence, penjelasan, indikator_bahaya is the object's value when the
\* key is present and its default when missing, and the result has no error.
C8_MissingKeysDefaulted ==
    \A r \in Requests :
        replied(r, "object") =>
            LET gpt_result == json_loads(Strip(events[r].content.v)).val.v
            IN  /\ analyzed(r)
                /\ K_error \notin DOMAIN outcome[r].value
                /\ \A i \in 1..Len(ResultKeys) :
                      LET k == ResultKeys[i]
                      IN  /\ k \in DOMAIN outcome[r].value
                          /\ k \in DOMAIN gpt_result =>
                                outcome[r].value[k] = gpt_result[k]
                          /\ k \notin DOMAIN gpt_result =>
                                outcome[r].value[k] = DefaultOf(i)

C8_Witness ==
    \E r \in Requests :
        /\ replied(r, "object") /\ analyzed(r)
        /\ events[r].content = JStr(ReplySafeOnly)
        /\ outcome[r].value[K_kategori] = JStr(S_Safe)
        /\ outcome[r].value[K_confidence] = JStr(S_medium)

\* ------------------------------------------------------------------------
\* C9

\* the dictionary is a usable result or an error payload
WellFormed(d) ==
    \/ K_error \in DOMAIN d /\ d[K_error].t = "str"
    \/ {K_kategori, K_confidence, K_penjelasan, K_indikator_bahaya,
        K_sentiment, K_sentiment_score, K_detected_language} \subseteq DOMAIN d

C9_Safe ==
    \A r \in Requests :
        /\ pc[r] # "raised"
        /\ ~outcome[r].raised
        /\ service_over(r) => analyzed(r) /\ WellFormed(outcome[r].value)
        /\ pc[r] = "done" <=> response[r].status \in {200, 400, 500}
        /\ pc[r] # "done" => response[r] = NoResponse

\* position of a request on its way to its answer; no step goes back
Rank(p) ==
    CASE p = "idle" -> 0
      [] p = "analyze" -> 1
      [] p = "get_sentiment" -> 2
      [] p = "sentiment_call" -> 3
      [] p = "get_language" -> 4
      [] p = "language_call" -> 5
      [] p = "build_prompt" -> 6
      [] p = "completion_call" -> 7
      [] p = "returned" -> 8
      [] p = "raised" -> 8
      [] p = "done" -> 9

\* C9: no exception crosses the boundary of analyze_text: every call, for
\* every text and every outcome of the external calls, ends by returning one
\* dictionary that is a usable result or carries an error field, and the
\* endpoint answers with exactly one of 200, 400, 500; every step moves the
\* request forward, so it ends once the external calls have returned.
C9_NoExceptionEscapes ==
    /\ []C9_Safe
    /\ [][\A r \in Requests : pc'[r] # pc[r] => Rank(pc'[r]) > Rank(pc[r])]_vars

C9_Witness ==
    \E r \in Requests :
        /\ pc[r] = "done" /\ analyzed(r)
        /\ replied(r, "non_object")
        /\ response[r].status = 200

\* ------------------------------------------------------------------------
\* C10

\* C10 (as stated): under any interleaving, each of the sentiment and
\* language operations issues at most one outbound call per distinct text.
C10_Original ==
    \A r1, r2 \in Requests :
        r1 # r2 /\ pc[r1] # "idle" /\ pc[r2] # "idle" /\ text[r1] = text[r2] =>
            /\ calls[r1].sentiment + calls[r2].sentiment <= 1
            /\ calls[r1].language + calls[r2].language <= 1

\* the value of operation op for text t has been obtained by some request
obtained(op, t) ==
    \E q \in Requests : text[q] = t /\ pc[q] # "idle" /\ events[q][op] \in {"ok", "hit"}

\* C10 (amended): with fewer distinct texts than the cache capacity, each
\* operation issues no outbound call for a text once a call for that text has
\* returned a value, and at most one per request; requests that look a text up
\* before the first call for it has returned (or after it raised) each issue
\* their own call.
C10_NoCallOnceCached ==
    [][\A r \in Requests :
          /\ calls'[r].sentiment > calls[r].sentiment =>
                ~obtained("sentiment", text[r]) /\ calls[r].sentiment = 0
          /\ calls'[r].language > calls[r].language =>
                ~obtained("language", text[r]) /\ calls[r].language = 0]_vars

C10_Witness ==
    \E r1, r2 \in Requests :
        /\ r1 # r2 /\ text[r1] = text[r2]
        /\ r1 \notin predecessors[r2] /\ r2 \notin predecessors[r1]
        /\ events[r1].sentiment = "ok" /\ events[r2].sentiment = "hit"
        /\ calls[r1].language = 1 /\ calls[r2].language = 1

====
